---- MODULE Spec2Model ----
(***************************************************************************)
(* Model of the rss package of archor: the RSS 2.0 document model and its  *)
(* validity predicates.  Two generations of the package are modelled: the  *)
(* canonical one (exported IsValid, src/unnamed/part_001 with the helpers  *)
(* of src/unnamed/part_000) and the older one (isValid,                    *)
(* src/pkg/rss/rss.go).                                                    *)
(*                                                                         *)
(* A Go string is a sequence of one-character strings; "" is <<>>.         *)
(* A call that ends in a run-time panic has the outcome "panic".           *)
(***************************************************************************)
EXTENDS Integers, Sequences, FiniteSets, TLC

VARIABLES elem, fn, out, calls, inspected

vars == <<elem, fn, out, calls, inspected>>

(* Longest string drawn over UrlAlphabet. *)
MaxUrlLen == 3
(* Longest string drawn over NumAlphabet. *)
MaxNumLen == 3
(* Number of validations of one tree that are followed. *)
MaxCalls == 2
(* Longest Hour sequence drawn for a SkipHours. *)
MaxHours == 25
(* Longest version string drawn. *)
MaxVersionLen == 3

(***************************************************************************)
(* Strings                                                                 *)
(***************************************************************************)
(* A pointer is a sequence of at most one element: Nil, or the value it     *)
(* points to.                                                              *)
Nil == <<>>

Ptr(v) == <<v>>

Deref(p) == p[1]

Digits == {"0", "1", "2", "3", "4", "5", "6", "7", "8", "9"}

DigitVal(c) ==
  CASE c = "0" -> 0 [] c = "1" -> 1 [] c = "2" -> 2 [] c = "3" -> 3
    [] c = "4" -> 4 [] c = "5" -> 5 [] c = "6" -> 6 [] c = "7" -> 7
    [] c = "8" -> 8 [] c = "9" -> 9

UpperLetters ==
  <<"A", "B", "C", "D", "E", "F", "G", "H", "I", "J", "K", "L", "M",
    "N", "O", "P", "Q", "R", "S", "T", "U", "V", "W", "X", "Y", "Z">>

LowerLetters ==
  <<"a", "b", "c", "d", "e", "f", "g", "h", "i", "j", "k", "l", "m",
    "n", "o", "p", "q", "r", "s", "t", "u", "v", "w", "x", "y", "z">>

IsUpper(c) == \E k \in 1..26 : UpperLetters[k] = c

IsLower(c) == \E k \in 1..26 : LowerLetters[k] = c

IsLetter(c) == IsUpper(c) \/ IsLower(c)

Lower(c) ==
  IF IsUpper(c) THEN LowerLetters[CHOOSE k \in 1..26 : UpperLetters[k] = c]
  ELSE c

Take(s, n) == SubSeq(s, 1, IF n < Len(s) THEN n ELSE Len(s))

Drop(s, n) == SubSeq(s, n + 1, Len(s))

HasPrefix(s, p) == Len(s) >= Len(p) /\ SubSeq(s, 1, Len(p)) = p

(* Position of the first c in s, 0 when there is none. *)
IndexOf(s, c) ==
  IF \E k \in 1..Len(s) : s[k] = c
  THEN CHOOSE k \in 1..Len(s) : s[k] = c /\ \A j \in 1..(k - 1) : s[j] /= c
  ELSE 0

(* Position of the last c in s, 0 when there is none. *)
LastIndexOf(s, c) ==
  IF \E k \in 1..Len(s) : s[k] = c
  THEN CHOOSE k \in 1..Len(s) :
         s[k] = c /\ \A j \in (k + 1)..Len(s) : s[j] /= c
  ELSE 0

(* All strings over alphabet A of length at most n. *)
StringsUpTo(A, n) == UNION {[1..k -> A] : k \in 0..n}

(***************************************************************************)
(* strconv.ParseUint(s, 10, 0).  The strings drawn have at most a few      *)
(* digits, far below the 64-bit range error.                               *)
(***************************************************************************)
RECURSIVE ParseUintLoop(_, _, _)
ParseUintLoop(s, k, n) ==
  IF k > Len(s) THEN [err |-> FALSE, n |-> n]
  ELSE IF s[k] \notin Digits THEN [err |-> TRUE, n |-> 0]
  ELSE ParseUintLoop(s, k + 1, n * 10 + DigitVal(s[k]))

ParseUint(s) ==
  IF s = <<>> THEN [err |-> TRUE, n |-> 0] ELSE ParseUintLoop(s, 1, 0)

(***************************************************************************)
(* net/url.ParseRequestURI(s), for strings of letters, digits and          *)
(* ":", "/", ".", "+", "-", " " (no "%", "?", "@", "[", control bytes).    *)
(* The result is TRUE when the parse returns an error.                     *)
(***************************************************************************)
RECURSIVE getSchemeLoop(_, _)
getSchemeLoop(s, k) ==
  IF k > Len(s) THEN [err |-> FALSE, scheme |-> <<>>, rest |-> s]
  ELSE IF IsLetter(s[k]) THEN getSchemeLoop(s, k + 1)
  ELSE IF s[k] \in Digits \cup {"+", "-", "."}
       THEN IF k = 1 THEN [err |-> FALSE, scheme |-> <<>>, rest |-> s]
            ELSE getSchemeLoop(s, k + 1)
  ELSE IF s[k] = ":"
       THEN IF k = 1 THEN [err |-> TRUE, scheme |-> <<>>, rest |-> <<>>]
            ELSE [err |-> FALSE, scheme |-> Take(s, k - 1), rest |-> Drop(s, k)]
  ELSE [err |-> FALSE, scheme |-> <<>>, rest |-> s]

getScheme(s) == getSchemeLoop(s, 1)

(* validOptionalPort: "" or ":" followed by digits only. *)
validOptionalPort(port) ==
  \/ port = <<>>
  \/ /\ port[1] = ":"
     /\ \A k \in 2..Len(port) : port[k] \in Digits

(* shouldEscape(c, encodeHost) is false for these bytes and for letters and digits. *)
HostPunct ==
  {"!", "$", "&", "'", "(", ")", "*", "+", ",", ";", "=", ":", "[", "]",
   "<", ">", "-", "_", ".", "~"}

(* parseAuthority / parseHost: TRUE when they return an error. *)
parseHostErr(host) ==
  LET i == LastIndexOf(host, ":") IN
    \/ i /= 0 /\ ~validOptionalPort(Drop(host, i - 1))
    \/ \E k \in 1..Len(host) :
         ~(IsLetter(host[k]) \/ host[k] \in Digits \/ host[k] \in HostPunct)

ParseRequestURIErr(s) ==
  IF s = <<>> THEN TRUE
  ELSE IF s = <<"*">> THEN FALSE
  ELSE LET gs == getScheme(s) IN
    IF gs.err THEN TRUE
    ELSE IF ~HasPrefix(gs.rest, <<"/">>) THEN gs.scheme = <<>>
    ELSE IF gs.scheme /= <<>> /\ HasPrefix(gs.rest, <<"/", "/">>)
         THEN LET a == Drop(gs.rest, 2)
                  i == IndexOf(a, "/")
                  authority == IF i = 0 THEN a ELSE Take(a, i - 1)
              IN parseHostErr(authority)
    ELSE FALSE

(***************************************************************************)
(* utils: IsValidURL                                                       *)
(***************************************************************************)
IsValidURL(s) == IF ParseRequestURIErr(s) THEN TRUE ELSE FALSE

(***************************************************************************)
(* time.Parse(time.RFC822, s), the layout "02 Jan 06 15:04 MST": its       *)
(* chunks are matched in order against the value.                          *)
(***************************************************************************)
getnum(s, fixed) ==
  IF ~(Len(s) >= 1 /\ s[1] \in Digits) THEN [err |-> TRUE, n |-> 0, rest |-> s]
  ELSE IF ~(Len(s) >= 2 /\ s[2] \in Digits)
       THEN IF fixed THEN [err |-> TRUE, n |-> 0, rest |-> s]
            ELSE [err |-> FALSE, n |-> DigitVal(s[1]), rest |-> Drop(s, 1)]
  ELSE [err |-> FALSE, n |-> 10 * DigitVal(s[1]) + DigitVal(s[2]),
        rest |-> Drop(s, 2)]

RECURSIVE cutspace(_)
cutspace(s) == IF Len(s) > 0 /\ s[1] = " " THEN cutspace(Drop(s, 1)) ELSE s

(* skip(value, " "): a space of the layout matches a run of spaces or the end. *)
skipSpace(value) ==
  IF Len(value) > 0 /\ value[1] /= " " THEN [err |-> TRUE, rest |-> value]
  ELSE [err |-> FALSE, rest |-> cutspace(value)]

(* skip(value, c) for a byte c that is not a space. *)
skipByte(value, c) ==
  IF Len(value) = 0 \/ value[1] /= c THEN [err |-> TRUE, rest |-> value]
  ELSE [err |-> FALSE, rest |-> Drop(value, 1)]

shortMonthNames ==
  << <<"J", "a", "n">>, <<"F", "e", "b">>, <<"M", "a", "r">>,
     <<"A", "p", "r">>, <<"M", "a", "y">>, <<"J", "u", "n">>,
     <<"J", "u", "l">>, <<"A", "u", "g">>, <<"S", "e", "p">>,
     <<"O", "c", "t">>, <<"N", "o", "v">>, <<"D", "e", "c">> >>

(* match: equal up to the case of ASCII letters. *)
match(s1, s2) ==
  \A k \in 1..Len(s1) :
    \/ s1[k] = s2[k]
    \/ IsLetter(s1[k]) /\ Lower(s1[k]) = Lower(s2[k])

lookup(tab, val) ==
  LET hits == {k \in 1..Len(tab) :
                 Len(val) >= Len(tab[k]) /\ match(Take(val, Len(tab[k])), tab[k])}
  IN IF hits = {} THEN [err |-> TRUE, n |-> 0, rest |-> val]
     ELSE LET k == CHOOSE h \in hits : \A g \in hits : h <= g
          IN [err |-> FALSE, n |-> k, rest |-> Drop(val, Len(tab[k]))]

(* leadingInt: the leading digits of s as a number, and how many there are. *)
RECURSIVE leadingInt(_, _, _)
leadingInt(s, k, x) ==
  IF k > Len(s) \/ s[k] \notin Digits THEN [x |-> x, used |-> k - 1]
  ELSE leadingInt(s, k + 1, x * 10 + DigitVal(s[k]))

(* atoi: an optional sign, then digits to the end. *)
atoi(s) ==
  LET signed == Len(s) > 0 /\ s[1] \in {"-", "+"}
      body == IF signed THEN Drop(s, 1) ELSE s
      li == leadingInt(body, 1, 0)
  IN IF li.used /= Len(body) THEN [err |-> TRUE, x |-> 0]
     ELSE [err |-> FALSE,
           x |-> IF signed /\ s[1] = "-" THEN 0 - li.x ELSE li.x]

isLeap(year) == year % 4 = 0 /\ (year % 100 /= 0 \/ year % 400 = 0)

daysIn(m, year) ==
  IF m = 2 THEN (IF isLeap(year) THEN 29 ELSE 28)
  ELSE IF m \in {4, 6, 9, 11} THEN 30 ELSE 31

(* parseSignedOffset: length of a leading "+hh"/"-hh" style offset, 0 if none. *)
parseSignedOffset(value) ==
  IF Len(value) = 0 \/ value[1] \notin {"-", "+"} THEN 0
  ELSE LET li == leadingInt(Drop(value, 1), 1, 0) IN
    IF li.used = 0 \/ li.x > 23 THEN 0 ELSE 1 + li.used

parseGMT(value) ==
  IF Len(value) = 3 THEN 3 ELSE 3 + parseSignedOffset(Drop(value, 3))

RECURSIVE countUpper(_, _)
countUpper(value, n) ==
  IF n < 6 /\ n < Len(value) /\ IsUpper(value[n + 1])
  THEN countUpper(value, n + 1) ELSE n

parseTimeZone(value) ==
  IF Len(value) < 3 THEN [ok |-> FALSE, length |-> 0]
  ELSE IF Take(value, 4) \in {<<"C", "h", "S", "T">>, <<"M", "e", "S", "T">>}
       THEN [ok |-> TRUE, length |-> 4]
  ELSE IF Take(value, 3) = <<"G", "M", "T">>
       THEN [ok |-> TRUE, length |-> parseGMT(value)]
  ELSE IF value[1] \in {"+", "-"}
       THEN [ok |-> parseSignedOffset(value) > 0,
             length |-> parseSignedOffset(value)]
  ELSE LET nUpper == countUpper(value, 0) IN
    IF nUpper = 5 /\ value[5] = "T" THEN [ok |-> TRUE, length |-> 5]
    ELSE IF nUpper = 4 /\ (value[4] = "T" \/ Take(value, 4) = <<"W", "I", "T", "A">>)
         THEN [ok |-> TRUE, length |-> 4]
    ELSE IF nUpper = 3 THEN [ok |-> TRUE, length |-> 3]
    ELSE [ok |-> FALSE, length |-> 0]

(* stdTZ: "UTC", or a zone abbreviation; the rest of the value, or an error. *)
parseTZ(value) ==
  IF Take(value, 3) = <<"U", "T", "C">> THEN [err |-> FALSE, rest |-> Drop(value, 3)]
  ELSE LET z == parseTimeZone(value) IN
    IF ~z.ok THEN [err |-> TRUE, rest |-> value]
    ELSE [err |-> FALSE, rest |-> Drop(value, z.length)]

(* TRUE when time.Parse(time.RFC822, value) returns an error. *)
ParseRFC822Err(value) ==
  LET day == getnum(value, TRUE)
      s1 == skipSpace(day.rest)
      mon == lookup(shortMonthNames, s1.rest)
      s2 == skipSpace(mon.rest)
      yr == atoi(Take(s2.rest, 2))
      year == IF yr.x >= 69 THEN yr.x + 1900 ELSE yr.x + 2000
      s3 == skipSpace(Drop(s2.rest, 2))
      hour == getnum(s3.rest, FALSE)
      s4 == skipByte(hour.rest, ":")
      min == getnum(s4.rest, TRUE)
      s5 == skipSpace(min.rest)
      tz == parseTZ(s5.rest)
  IN \/ day.err
     \/ s1.err
     \/ mon.err
     \/ s2.err
     \/ Len(s2.rest) < 2
     \/ yr.err
     \/ s3.err
     \/ hour.err
     \/ hour.n >= 24
     \/ s4.err
     \/ min.err
     \/ min.n >= 60
     \/ s5.err
     \/ tz.err
     \/ Len(tz.rest) /= 0
     \/ day.n < 1
     \/ day.n > daysIn(mon.n, year)

(***************************************************************************)
(* utils: IsValidRFC822                                                    *)
(***************************************************************************)
IsValidRFC822(s) == IF ParseRFC822Err(s) THEN TRUE ELSE FALSE

(***************************************************************************)
(* Canonical generation: element predicates                                *)
(***************************************************************************)
RSSVERSION == <<"2", ".", "0">>

(* Version.IsValid accepting any version that is present. *)
Version_IsValid_NonEmpty(r) == r /= <<>>

Version_IsValid(r) == r = RSSVERSION

Title_IsValid(r) == r /= <<>>

Link_IsValid(r) == IsValidURL(r)

Description_IsValid(r) == r /= <<>>

PubDate_IsValid(r) == IsValidRFC822(r)

LastBuildDate_IsValid(r) == IsValidRFC822(r)

(* i < 0 never holds of the unsigned result. *)
TTL_IsValid(r) ==
  LET p == ParseUint(r) IN IF p.err \/ p.n < 0 THEN FALSE ELSE TRUE

URL_IsValid(r) == IsValidURL(r)

Width_IsValid(r) ==
  LET p == ParseUint(r) IN IF p.err \/ p.n > 144 THEN FALSE ELSE TRUE

Height_IsValid(r) ==
  LET p == ParseUint(r) IN IF p.err \/ p.n > 400 THEN FALSE ELSE TRUE

Image_IsValid(r) ==
  IF URL_IsValid(r.URL) \/ Title_IsValid(r.Title) \/ Link_IsValid(r.Link)
  THEN FALSE
  ELSE Width_IsValid(r.Width) /\ Height_IsValid(r.Height)

TextInput_IsValid(r) ==
  r.Title /= <<>> /\ r.Description /= <<>> /\ r.Name /= <<>> /\ r.Link /= <<>>

(* Channel.IsValid without the check of Description. *)
Channel_IsValid_NoDescription(c) == c.Title /= <<>> /\ c.Link /= <<>>

Channel_IsValid(c) ==
  c.Title /= <<>> /\ c.Link /= <<>> /\ c.Description /= <<>>

(* Item.IsValid asking for Title and Description both. *)
Item_IsValid_Both(r) == Title_IsValid(r.Title) /\ Description_IsValid(r.Description)

Item_IsValid(r) == Title_IsValid(r.Title) \/ Description_IsValid(r.Description)

Source_IsValid(r) == URL_IsValid(r.URL)

Length_IsValid(r) == TRUE

Type_IsValid(r) == TRUE

(* Enclosure.IsValid accepting every enclosure. *)
Enclosure_IsValid_Always(r) == TRUE

Enclosure_IsValid(r) ==
  URL_IsValid(r.URL) /\ Length_IsValid(r.Length) /\ Type_IsValid(r.Type)

Hour_IsValid(r) == IF r < 0 \/ r > 23 THEN FALSE ELSE TRUE

(* The range loop over r.Hour: the first invalid hour ends it. *)
RECURSIVE SkipHours_IsValid_From(_, _)
SkipHours_IsValid_From(r, k) ==
  IF k > Len(r.Hour) THEN TRUE
  ELSE IF ~Hour_IsValid(Deref(r.Hour[k])) THEN FALSE
  ELSE SkipHours_IsValid_From(r, k + 1)

(* SkipHours.IsValid letting one hour more through. *)
SkipHours_IsValid_OffByOne(r) ==
  IF Len(r.Hour) > 25 THEN FALSE ELSE SkipHours_IsValid_From(r, 1)

SkipHours_IsValid(r) ==
  IF Len(r.Hour) > 24 THEN FALSE ELSE SkipHours_IsValid_From(r, 1)

(***************************************************************************)
(* Canonical generation: RSS.IsValid, the reflective walk over the fields  *)
(* of the RSS struct.                                                      *)
(***************************************************************************)
RSSFields == <<"XMLName", "Version", "Channel">>

(* The field's value asserts to RSSElement: its type has an IsValid method. *)
ImplementsRSSElement(f) == f \in {"Version", "Channel"}

(* Kinds on which reflect.Value.IsNil is defined; on any other it panics. *)
NilableKinds == {"Chan", "Func", "Interface", "Map", "Pointer", "Slice", "UnsafePointer"}

(* Kind of reflect.Indirect(reflect.ValueOf(t)) for the field's value t: a   *)
(* nil pointer gives the zero Value, a pointer the value it points to.       *)
IndirectKind(r, f) ==
  IF f = "Version" THEN "String"
  ELSE IF r.Channel = Nil THEN "Invalid" ELSE "Struct"

(* The walk returns the outcome and the fields whose value it examined      *)
(* (on which it called IsNil), in order.                                    *)
RECURSIVE RSS_IsValid_From(_, _, _)
RSS_IsValid_From(r, i, seen) ==
  IF i > Len(RSSFields) THEN [ret |-> "true", inspected |-> seen]
  ELSE IF ~ImplementsRSSElement(RSSFields[i]) THEN RSS_IsValid_From(r, i + 1, seen)
  ELSE LET k == IndirectKind(r, RSSFields[i])
           now == Append(seen, RSSFields[i])
       IN IF k \notin NilableKinds THEN [ret |-> "panic", inspected |-> now]
          ELSE IF k = "Invalid" THEN [ret |-> "false", inspected |-> now]
          ELSE RSS_IsValid_From(r, i + 1, now)

RSS_IsValid_Walk(r) == RSS_IsValid_From(r, 1, <<>>)

RSS_IsValid(r) == RSS_IsValid_Walk(r).ret

(***************************************************************************)
(* Older generation (pkg/rss/rss.go)                                       *)
(***************************************************************************)
Version_isValid(r) == r = RSSVERSION

(* Channel.isValid applying the rule of Link to the link. *)
Channel_isValid_LinkChecked(c) ==
  c.Title /= <<>> /\ Link_IsValid(c.Link) /\ c.Description /= <<>>

Channel_isValid(c) ==
  c.Title /= <<>> /\ c.Link /= <<>> /\ c.Description /= <<>>

TextInput_isValid(r) ==
  r.Title /= <<>> /\ r.Description /= <<>> /\ r.Name /= <<>> /\ r.Link /= <<>>

(* Calling the value method through a nil *Channel panics.  The walk       *)
(* returns the outcome and the fields whose isValid it called, in order.   *)
RECURSIVE RSS_isValid_From(_, _, _)
RSS_isValid_From(r, i, seen) ==
  IF i > Len(RSSFields) THEN [ret |-> "true", inspected |-> seen]
  ELSE IF RSSFields[i] = "Version"
       THEN IF ~Version_isValid(r.Version)
            THEN [ret |-> "false", inspected |-> Append(seen, "Version")]
            ELSE RSS_isValid_From(r, i + 1, Append(seen, "Version"))
  ELSE IF RSSFields[i] = "Channel"
       THEN IF r.Channel = Nil
            THEN [ret |-> "panic", inspected |-> Append(seen, "Channel")]
            ELSE IF ~Channel_isValid(Deref(r.Channel))
                 THEN [ret |-> "false", inspected |-> Append(seen, "Channel")]
            ELSE RSS_isValid_From(r, i + 1, Append(seen, "Channel"))
  ELSE RSS_isValid_From(r, i + 1, seen)

RSS_isValid_Walk(r) == RSS_isValid_From(r, 1, <<>>)

RSS_isValid(r) == RSS_isValid_Walk(r).ret

(***************************************************************************)
(* Values the elements are drawn from                                      *)
(***************************************************************************)
Str_T == <<"T">>
Str_D == <<"D">>
Str_1_0 == <<"1", ".", "0">>
Str_http_x_com == <<"h", "t", "t", "p", ":", "/", "/", "x", ".", "c", "o", "m">>
Str_http_example_com == <<"h", "t", "t", "p", ":", "/", "/", "e", "x", "a", "m", "p", "l", "e", ".", "c", "o", "m">>
Str_not_a_url == <<"n", "o", "t", " ", "a", " ", "u", "r", "l">>
Str_not_a_date == <<"n", "o", "t", " ", "a", " ", "d", "a", "t", "e">>
Str_Sun_06_Sep_2009 == <<"S", "u", "n", ",", " ", "0", "6", " ", "S", "e", "p", " ", "2", "0", "0", "9", " ", "1", "6", ":", "2", "0", ":", "0", "0", " ", "+", "0", "0", "0", "0">>
Str_06_Sep_09_UTC == <<"0", "6", " ", "S", "e", "p", " ", "0", "9", " ", "1", "6", ":", "2", "0", " ", "U", "T", "C">>
Str_1800 == <<"1", "8", "0", "0">>
Str_abc == <<"a", "b", "c">>
Str_144 == <<"1", "4", "4">>
Str_145 == <<"1", "4", "5">>
Str_400 == <<"4", "0", "0">>
Str_401 == <<"4", "0", "1">>
Str_audio_mpeg == <<"a", "u", "d", "i", "o", "/", "m", "p", "e", "g">>

UrlAlphabet == {"h", ":", "/", " ", "1"}

NumAlphabet == {"0", "1", "4", "5", "-", "a"}

UrlStrings ==
  StringsUpTo(UrlAlphabet, MaxUrlLen)
    \cup {Str_http_x_com, Str_http_example_com, Str_not_a_url}

NumStrings == StringsUpTo(NumAlphabet, MaxNumLen) \cup {Str_1800, Str_abc}

DatePrefixes == {<<>>, <<"S", "u", "n", ",", " ">>}
DateDays == {<<"0", "6">>, <<"6">>, <<"3", "1">>, <<"0", "0">>}
DateMonths == {<<"S", "e", "p">>, <<"s", "e", "p">>, <<"F", "e", "b">>, <<"X", "y", "z">>}
DateYears == {<<"0", "9">>, <<"2", "0", "0", "9">>}
DateTimes == {<<"1", "6", ":", "2", "0">>, <<"1", "6", ":", "2", "0", ":", "0", "0">>, <<"2", "4", ":", "0", "0">>, <<"9", ":", "0", "5">>}
DateZones == {<<"U", "T", "C">>, <<"M", "S", "T">>, <<"+", "0", "0", "0", "0">>, <<"Z">>}

DateStrings ==
  {p \o d \o <<" ">> \o m \o <<" ">> \o y \o <<" ">> \o t \o <<" ">> \o z :
     p \in DatePrefixes, d \in DateDays, m \in DateMonths, y \in DateYears,
     t \in DateTimes, z \in DateZones}
    \cup {<<>>, Str_not_a_date}

ZeroCategory == [Domain |-> <<>>]

ZeroCloud ==
  [Domain |-> <<>>, Port |-> <<>>, Path |-> <<>>,
   RegisterProcedure |-> <<>>, Protocol |-> <<>>]

ZeroImage ==
  [URL |-> <<>>, Title |-> <<>>, Link |-> <<>>, Width |-> <<>>,
   Height |-> <<>>, Description |-> <<>>]

ZeroTextInput ==
  [Title |-> <<>>, Description |-> <<>>, Name |-> <<>>, Link |-> <<>>]

ZeroSource == [URL |-> <<>>]

ZeroEnclosure == [URL |-> <<>>, Length |-> <<>>, Type |-> <<>>]

ZeroGUID == [IsPermaLink |-> <<>>]

ZeroItem ==
  [Title |-> <<>>, Link |-> <<>>, Description |-> <<>>, Source |-> ZeroSource,
   Enclosure |-> ZeroEnclosure, Category |-> ZeroCategory, PubDate |-> <<>>,
   GUID |-> ZeroGUID, Comments |-> <<>>, Author |-> <<>>]

ZeroChannel ==
  [Title |-> <<>>, Link |-> <<>>, Description |-> <<>>, Language |-> <<>>,
   Copyright |-> <<>>, ManagingEditor |-> <<>>, WebMaster |-> <<>>,
   PubDate |-> <<>>, LastBuildDate |-> <<>>, Category |-> ZeroCategory,
   Generator |-> <<>>, Docs |-> <<>>, Cloud |-> ZeroCloud, TTL |-> <<>>,
   Image |-> ZeroImage, Rating |-> <<>>, TextInput |-> ZeroTextInput,
   SkipHours |-> [Hour |-> <<>>], SkipDays |-> [Day |-> <<>>], Item |-> <<>>]

Images ==
  {[ZeroImage EXCEPT !.URL = u, !.Title = t, !.Link = l, !.Width = w, !.Height = h] :
     u \in {<<>>, Str_http_example_com, Str_not_a_url},
     t \in {<<>>, Str_T},
     l \in {<<>>, Str_http_example_com, Str_not_a_url},
     w \in {<<>>, Str_144, Str_145, Str_abc},
     h \in {<<>>, Str_400, Str_401, Str_abc}}

Items ==
  {[ZeroItem EXCEPT !.Title = t, !.Description = d, !.Link = l,
                    !.Source = [URL |-> s], !.Enclosure = e,
                    !.Category = [Domain |-> c], !.PubDate = p,
                    !.GUID = [IsPermaLink |-> g], !.Comments = k, !.Author = a] :
     t \in {<<>>, Str_T}, d \in {<<>>, Str_D}, l \in {<<>>, Str_not_a_url},
     s \in {<<>>, Str_not_a_url},
     e \in {ZeroEnclosure,
            [URL |-> Str_http_x_com, Length |-> Str_1800, Type |-> Str_audio_mpeg]},
     c \in {<<>>, Str_D}, p \in {<<>>, Str_not_a_date}, g \in {<<>>, Str_T},
     k \in {<<>>, Str_http_x_com}, a \in {<<>>, Str_T}}

(* The channel of the minimal document, and channels without one or more  *)
(* of the required elements or with a link that is not an absolute URL.   *)
RequiredOnlyChannels ==
  {[ZeroChannel EXCEPT !.Title = t, !.Link = l, !.Description = d] :
     t \in {<<>>, Str_T}, l \in {<<>>, Str_http_x_com, Str_not_a_url},
     d \in {<<>>, Str_D}}

Channels ==
  {[c EXCEPT !.TTL = ttl, !.PubDate = p, !.Image = im, !.Item = it,
             !.SkipHours = [Hour |-> sh]] :
     c \in RequiredOnlyChannels, ttl \in {<<>>, Str_abc},
     p \in {<<>>, Str_not_a_date},
     im \in {ZeroImage, [ZeroImage EXCEPT !.Title = Str_T]},
     it \in {<<>>, <<Ptr(ZeroItem)>>},
     sh \in {<<>>, <<Ptr(24)>>}}

HourValues == {0 - 1, 0, 23, 24}

(* Hour sequences of every length up to MaxHours: all entries alike, or   *)
(* alike but one.                                                          *)
HourSeqs ==
  {[k \in 1..n |-> Ptr(IF k = j THEN h ELSE g)] :
     n \in 0..MaxHours, j \in {1, 12, 24, 25}, h \in HourValues, g \in {0, 23, 24}}

SkipHoursSet == {[Hour |-> hs] : hs \in HourSeqs}

Enclosures ==
  {[URL |-> u, Length |-> l, Type |-> ty] :
     u \in {<<>>, Str_http_x_com, Str_http_example_com, Str_not_a_url},
     l \in {<<>>, Str_1800, Str_abc},
     ty \in {<<>>, Str_audio_mpeg}}

VersionAlphabet == {"2", ".", "0", "1"}

VersionStrings == StringsUpTo(VersionAlphabet, MaxVersionLen)

TextInputs ==
  {[Title |-> t, Description |-> d, Name |-> n, Link |-> l] :
     t \in {<<>>, Str_T}, d \in {<<>>, Str_D}, n \in {<<>>, Str_T},
     l \in {<<>>, Str_http_x_com, Str_not_a_url}}

Documents ==
  {[Version |-> v, Channel |-> c] :
     v \in {RSSVERSION, Str_1_0, <<>>},
     c \in {Nil} \cup {Ptr(ch) : ch \in RequiredOnlyChannels}}

(***************************************************************************)
(* The state: the element under validation, the predicate last applied to  *)
(* it, that call's outcome ("true", "false" or "panic") and the number of  *)
(* validations made.                                                       *)
(***************************************************************************)
Verdict(b) == IF b THEN "true" ELSE "false"

Init ==
  /\ \/ \E d \in Documents : elem = [type |-> "RSS", val |-> d]
     \/ \E c \in Channels : elem = [type |-> "Channel", val |-> c]
     \/ \E i \in Items : elem = [type |-> "Item", val |-> i]
     \/ \E i \in Images : elem = [type |-> "Image", val |-> i]
     \/ \E ty \in {"Link", "URL"}, s \in UrlStrings : elem = [type |-> ty, val |-> s]
     \/ \E s \in UrlStrings : elem = [type |-> "Source", val |-> [URL |-> s]]
     \/ \E ty \in {"PubDate", "LastBuildDate"}, s \in DateStrings :
          elem = [type |-> ty, val |-> s]
     \/ \E s \in NumStrings : elem = [type |-> "TTL", val |-> s]
     \/ \E s \in SkipHoursSet : elem = [type |-> "SkipHours", val |-> s]
     \/ \E e \in Enclosures : elem = [type |-> "Enclosure", val |-> e]
     \/ \E s \in VersionStrings : elem = [type |-> "Version", val |-> s]
     \/ \E r \in TextInputs : elem = [type |-> "TextInput", val |-> r]
  /\ fn = "none"
  /\ out = "none"
  /\ calls = 0
  /\ inspected = <<>>

(* A call whose result depends on the calls made before it. *)
Return_Stateful(f, outcome) ==
  /\ calls < MaxCalls
  /\ fn' = f
  /\ out' = IF calls = 0 THEN outcome ELSE "false"
  /\ calls' = calls + 1
  /\ UNCHANGED elem

(* The call of predicate f returns: the element was passed by value and    *)
(* nothing was written to it.                                              *)
Return(f, outcome) ==
  /\ calls < MaxCalls
  /\ fn' = f
  /\ out' = outcome
  /\ calls' = calls + 1
  /\ UNCHANGED elem

Validate_RSS ==
  /\ elem.type = "RSS"
  /\ Return("RSS.IsValid", RSS_IsValid(elem.val))
  /\ inspected' = RSS_IsValid_Walk(elem.val).inspected

Validate_RSS_old ==
  /\ elem.type = "RSS"
  /\ Return("RSS.isValid", RSS_isValid(elem.val))
  /\ inspected' = RSS_isValid_Walk(elem.val).inspected

Validate_Channel ==
  /\ elem.type = "Channel"
  /\ Return("Channel.IsValid", Verdict(Channel_IsValid(elem.val)))
  /\ inspected' = <<>>

Validate_Channel_old ==
  /\ elem.type = "Channel"
  /\ Return("Channel.isValid", Verdict(Channel_isValid(elem.val)))
  /\ inspected' = <<>>

Validate_TextInput ==
  /\ elem.type = "TextInput"
  /\ Return("TextInput.IsValid", Verdict(TextInput_IsValid(elem.val)))
  /\ inspected' = <<>>

Validate_TextInput_old ==
  /\ elem.type = "TextInput"
  /\ Return("TextInput.isValid", Verdict(TextInput_isValid(elem.val)))
  /\ inspected' = <<>>

Validate_Item ==
  /\ elem.type = "Item"
  /\ Return("Item.IsValid", Verdict(Item_IsValid(elem.val)))
  /\ inspected' = <<>>

Validate_Image ==
  /\ elem.type = "Image"
  /\ Return("Image.IsValid", Verdict(Image_IsValid(elem.val)))
  /\ inspected' = <<>>

Validate_Link ==
  /\ elem.type = "Link"
  /\ Return("Link.IsValid", Verdict(Link_IsValid(elem.val)))
  /\ inspected' = <<>>

Validate_URL ==
  /\ elem.type = "URL"
  /\ Return("URL.IsValid", Verdict(URL_IsValid(elem.val)))
  /\ inspected' = <<>>

Validate_Source ==
  /\ elem.type = "Source"
  /\ Return("Source.IsValid", Verdict(Source_IsValid(elem.val)))
  /\ inspected' = <<>>

Validate_PubDate ==
  /\ elem.type = "PubDate"
  /\ Return("PubDate.IsValid", Verdict(PubDate_IsValid(elem.val)))
  /\ inspected' = <<>>

Validate_LastBuildDate ==
  /\ elem.type = "LastBuildDate"
  /\ Return("LastBuildDate.IsValid", Verdict(LastBuildDate_IsValid(elem.val)))
  /\ inspected' = <<>>

Validate_TTL ==
  /\ elem.type = "TTL"
  /\ Return("TTL.IsValid", Verdict(TTL_IsValid(elem.val)))
  /\ inspected' = <<>>

Validate_SkipHours ==
  /\ elem.type = "SkipHours"
  /\ Return("SkipHours.IsValid", Verdict(SkipHours_IsValid(elem.val)))
  /\ inspected' = <<>>

Validate_Enclosure ==
  /\ elem.type = "Enclosure"
  /\ Return("Enclosure.IsValid", Verdict(Enclosure_IsValid(elem.val)))
  /\ inspected' = <<>>

Validate_Version ==
  /\ elem.type = "Version"
  /\ Return("Version.IsValid", Verdict(Version_IsValid(elem.val)))
  /\ inspected' = <<>>

Validate_Version_old ==
  /\ elem.type = "Version"
  /\ Return("Version.isValid", Verdict(Version_isValid(elem.val)))
  /\ inspected' = <<>>

Next ==
  \/ Validate_RSS
  \/ Validate_RSS_old
  \/ Validate_Channel
  \/ Validate_Channel_old
  \/ Validate_TextInput
  \/ Validate_TextInput_old
  \/ Validate_Item
  \/ Validate_Image
  \/ Validate_Link
  \/ Validate_URL
  \/ Validate_Source
  \/ Validate_PubDate
  \/ Validate_LastBuildDate
  \/ Validate_TTL
  \/ Validate_SkipHours
  \/ Validate_Enclosure
  \/ Validate_Version
  \/ Validate_Version_old

Spec == Init /\ [][Next]_vars

(***************************************************************************)
(* Claims                                                                  *)
(***************************************************************************)
(* The document of the round trip: version "2.0" and a channel with title  *)
(* "T", link "http://x.com", description "D" and nothing else.             *)
MinimalChannel ==
  [ZeroChannel EXCEPT !.Title = Str_T, !.Link = Str_http_x_com,
                      !.Description = Str_D]

MinimalDocument == [Version |-> RSSVERSION, Channel |-> Ptr(MinimalChannel)]

(* The minimal document with one required channel element removed. *)
MinimalMinusOne ==
  {[Version |-> RSSVERSION, Channel |-> Ptr([MinimalChannel EXCEPT ![f] = <<>>])] :
     f \in {"Title", "Link", "Description"}}

(* No optional element of the channel is present. *)
NoOptionalPresent(c) ==
  [c EXCEPT !.Title = <<>>, !.Link = <<>>, !.Description = <<>>] = ZeroChannel

(* C1: a document whose version is not "2.0" is reported invalid by        *)
(* RSS.IsValid, whatever its channel (a nil channel included).             *)
C1_VersionNot20IsInvalid ==
  (fn = "RSS.IsValid" /\ elem.val.Version /= RSSVERSION) => out = "false"

(* C2: RSS.IsValid of the minimal document is true, and of the minimal     *)
(* document without its title, its link or its description is false.       *)
C2_MinimalDocumentRoundTrip ==
  fn = "RSS.IsValid" =>
    /\ elem.val = MinimalDocument => out = "true"
    /\ elem.val \in MinimalMinusOne => out = "false"

(* C3: Channel.IsValid is false when any of Title, Link, Description is    *)
(* empty, and true when all three are non-empty and no optional element    *)
(* is present.                                                             *)
C3_ChannelRequiredElements ==
  fn = "Channel.IsValid" =>
    /\ (elem.val.Title = <<>> \/ elem.val.Link = <<>> \/ elem.val.Description = <<>>)
         => out = "false"
    /\ (/\ elem.val.Title /= <<>>
        /\ elem.val.Link /= <<>>
        /\ elem.val.Description /= <<>>
        /\ NoOptionalPresent(elem.val))
         => out = "true"

(* C3 witness: a channel with the three required elements and no optional *)
(* one has been validated and found valid.                                 *)
C3_Witness ==
  /\ fn = "Channel.IsValid"
  /\ elem.val = MinimalChannel
  /\ out = "true"

(* C4: Item.IsValid is exactly "Title is non-empty or Description is       *)
(* non-empty", whatever the other elements of the item hold.               *)
C4_ItemTitleOrDescription ==
  fn = "Item.IsValid" =>
    out = Verdict(elem.val.Title /= <<>> \/ elem.val.Description /= <<>>)

(* C4 witness: an item with only a description, and with a link, a source, *)
(* a publication date and an enclosure set, has been found valid.          *)
C4_Witness ==
  /\ fn = "Item.IsValid"
  /\ elem.val.Title = <<>>
  /\ elem.val.Description = Str_D
  /\ elem.val.Link = Str_not_a_url
  /\ elem.val.Source.URL = Str_not_a_url
  /\ elem.val.PubDate = Str_not_a_date
  /\ elem.val.Enclosure /= ZeroEnclosure
  /\ out = "true"

(* C5: a document whose channel is nil is reported invalid by RSS.IsValid, *)
(* as is one whose channel is present and fails Channel.IsValid.           *)
C5_NilChannelIsInvalid ==
  fn = "RSS.IsValid" =>
    /\ elem.val.Channel = Nil => out = "false"
    /\ (elem.val.Channel /= Nil /\ ~Channel_IsValid(Deref(elem.val.Channel)))
         => out = "false"

(* C6: RSS.IsValid ends with a boolean verdict for every document, the     *)
(* zero document and a document with a nil channel included; it never      *)
(* panics.                                                                 *)
C6_ValidationIsTotal == fn = "RSS.IsValid" => out \in {"true", "false"}

(* C7: Link.IsValid, URL.IsValid and Source.IsValid are true of a string   *)
(* that parses as an absolute URL ("http://example.com") and false of one  *)
(* that does not ("not a url").                                            *)
C7_URLRule ==
  /\ fn \in {"Link.IsValid", "URL.IsValid"}
       => out = Verdict(~ParseRequestURIErr(elem.val))
  /\ fn = "Source.IsValid" => out = Verdict(~ParseRequestURIErr(elem.val.URL))

(* C8: PubDate.IsValid and LastBuildDate.IsValid are true of a string that *)
(* parses as an RFC 822 date-time ("Sun, 06 Sep 2009 16:20:00 +0000"       *)
(* among them) and false of one that does not ("not a date").              *)
C8_RFC822Rule ==
  fn \in {"PubDate.IsValid", "LastBuildDate.IsValid"} =>
    /\ ~ParseRFC822Err(elem.val) => out = "true"
    /\ elem.val = Str_Sun_06_Sep_2009 => out = "true"
    /\ elem.val = Str_not_a_date => out = "false"

(* C9: TTL.IsValid is true exactly when the text is a base-10 integer      *)
(* greater than zero: "0", "-1" and "abc" are invalid, "1800" is valid.    *)
C9_TTLStrictlyPositive ==
  fn = "TTL.IsValid" =>
    out = Verdict(~ParseUint(elem.val).err /\ ParseUint(elem.val).n > 0)

(* C10: an image whose URL, title and link are valid is valid with width   *)
(* "144" and height "400", and invalid with width "145", with height       *)
(* "401", or with a width or height that is not a number.                  *)
C10_ImageWidthHeightBounds ==
  (/\ fn = "Image.IsValid"
   /\ ~ParseRequestURIErr(elem.val.URL)
   /\ elem.val.Title /= <<>>
   /\ ~ParseRequestURIErr(elem.val.Link)) =>
    /\ (elem.val.Width = Str_144 /\ elem.val.Height = Str_400) => out = "true"
    /\ (elem.val.Width \in {Str_145, Str_abc} \/ elem.val.Height \in {Str_401, Str_abc})
         => out = "false"

(* C11: SkipHours.IsValid is true exactly when there are at most 24 hours  *)
(* and each is in 0..23; 25 hours are invalid whatever they are.           *)
C11_SkipHoursBounds ==
  fn = "SkipHours.IsValid" =>
    out = Verdict(/\ Len(elem.val.Hour) <= 24
                  /\ \A k \in 1..Len(elem.val.Hour) :
                       Deref(elem.val.Hour[k]) \in 0..23)

(* C11 witness: 25 hours, each of them valid, have been found invalid.     *)
C11_Witness ==
  /\ fn = "SkipHours.IsValid"
  /\ Len(elem.val.Hour) = 25
  /\ \A k \in 1..25 : Deref(elem.val.Hour[k]) = 0
  /\ out = "false"

C13_AbsentOptionalKeepsValid ==
  (/\ fn = "Image.IsValid"
   /\ ~ParseRequestURIErr(elem.val.URL)
   /\ elem.val.Title /= <<>>
   /\ ~ParseRequestURIErr(elem.val.Link)
   /\ elem.val.Width = <<>>
   /\ elem.val.Height = <<>>) => out = "true"

(* An optional element of the channel is present and breaks its own rule.  *)
PresentInvalidOptional(c) ==
  \/ c.TTL /= <<>> /\ ParseUint(c.TTL).err
  \/ c.PubDate /= <<>> /\ ParseRFC822Err(c.PubDate)
  \/ c.Image /= ZeroImage /\ (c.Image.URL = <<>> \/ c.Image.Link = <<>>)
  \/ Len(c.SkipHours.Hour) > 24
  \/ \E k \in 1..Len(c.SkipHours.Hour) : Deref(c.SkipHours.Hour[k]) \notin 0..23
  \/ \E k \in 1..Len(c.Item) :
       Deref(c.Item[k]).Title = <<>> /\ Deref(c.Item[k]).Description = <<>>

(* C14: a channel with valid title, link and description is invalid when   *)
(* an optional element of it is present and invalid.                       *)
C14_InvalidOptionalInvalidates ==
  (/\ fn = "Channel.IsValid"
   /\ elem.val.Title /= <<>>
   /\ ~ParseRequestURIErr(elem.val.Link)
   /\ elem.val.Description /= <<>>
   /\ PresentInvalidOptional(elem.val)) => out = "false"

(* The channel has a title, a description and a link that is present but   *)
(* is no absolute URL.                                                     *)
LinkPresentInvalid(c) ==
  /\ c.Title /= <<>>
  /\ c.Description /= <<>>
  /\ c.Link /= <<>>
  /\ ParseRequestURIErr(c.Link)

(* C15: a channel whose link is present but is no absolute URL is invalid, *)
(* and so is a document that holds such a channel.                         *)
C15_InvalidRequiredInvalidates ==
  /\ (fn = "Channel.IsValid" /\ LinkPresentInvalid(elem.val)) => out = "false"
  /\ (/\ fn = "RSS.IsValid"
      /\ elem.val.Channel /= Nil
      /\ LinkPresentInvalid(Deref(elem.val.Channel))) => out = "false"

C17_NoChannelIsValid ==
  (/\ fn = "RSS.isValid"
   /\ elem.val.Version = RSSVERSION
   /\ elem.val.Channel = Nil) => out = "true"

(* C18: Image.IsValid is true only if URL, title and link each satisfy     *)
(* their own predicate, and false when one of them does not.               *)
C18_ImageRequiresAllThree ==
  fn = "Image.IsValid" =>
    /\ out = "true" =>
         /\ URL_IsValid(elem.val.URL)
         /\ Title_IsValid(elem.val.Title)
         /\ Link_IsValid(elem.val.Link)
    /\ ~(/\ URL_IsValid(elem.val.URL)
         /\ Title_IsValid(elem.val.Title)
         /\ Link_IsValid(elem.val.Link)) => out = "false"

C20_FirstFailureShortCircuits ==
  (/\ fn \in {"RSS.IsValid", "RSS.isValid"}
   /\ elem.val.Version /= RSSVERSION) =>
    /\ out = "false"
    /\ inspected = <<"Version">>

(* C21: the two generations agree on Version, Channel and TextInput: the   *)
(* verdict either generation's predicate returned on an element is the     *)
(* verdict the other generation's predicate gives on the same contents.    *)
C21_GenerationsAgree ==
  /\ fn = "Version.isValid" => out = Verdict(Version_IsValid(elem.val))
  /\ fn = "Version.IsValid" => out = Verdict(Version_isValid(elem.val))
  /\ fn = "Channel.isValid" => out = Verdict(Channel_IsValid(elem.val))
  /\ fn = "Channel.IsValid" => out = Verdict(Channel_isValid(elem.val))
  /\ fn = "TextInput.isValid" => out = Verdict(TextInput_IsValid(elem.val))
  /\ fn = "TextInput.IsValid" => out = Verdict(TextInput_isValid(elem.val))

(* C21 witness: after both predicates of a generation pair were called,    *)
(* the older Channel.isValid has accepted a channel whose link is          *)
(* "not a url", as the canonical Channel.IsValid does.                     *)
C21_Witness ==
  /\ calls = 2
  /\ fn = "Channel.isValid"
  /\ elem.val.Title = Str_T
  /\ elem.val.Link = Str_not_a_url
  /\ elem.val.Description = Str_D
  /\ out = "true"
  /\ Channel_IsValid(elem.val)

====
